---- MODULE Spec2Model ----
(***************************************************************************)
(* Internet Dashboard status aggregation (src/lambda/api/                  *)
(* internet_dashboard.py) and its HTTP handlers (src/lambda/api/handler.py)*)
(*                                                                         *)
(* Conventions                                                             *)
(*   - a Python str is a sequence of one-character strings;                *)
(*   - an optional value (None or x) is <<>> or <<x>>;                     *)
(*   - a provider's return value is a record [kind, items] with kind       *)
(*     "list" (a Python list), "none" (None) or "raise" (an exception      *)
(*     leaves the provider);                                               *)
(*   - a JSON text is a record [kind, elems]: kind "array" with its        *)
(*     serialized elements, "object" for a JSON value that is not an       *)
(*     array, "corrupt" for a text json.loads rejects.                     *)
(***************************************************************************)
EXTENDS Integers, Sequences, FiniteSets, TLC

VARIABLES
    tableName,    \* TABLE_NAME is set (module constant read from the environment)
    urKey,        \* UPTIMEROBOT_API_KEY is set
    scKey,        \* STATUSCAKE_API_KEY is set
    cfg,          \* DynamoDB item PK=INTERNET_DASHBOARD SK=SITES
    cache,        \* DynamoDB item PK=INTERNET_DASHBOARD SK=STATUS
    now,          \* wall clock (datetime.utcnow), one tick per request
    pc,           \* per call: position inside fetchDashboard
    sites,        \* per call: the resolved target list
    result,       \* per call: the provider result accepted by the cascade loop
    src,          \* per call: name of the source that produced result
    ret,          \* per call: the value fetchDashboard returned
    outcome,      \* per call: "none", "returned" or "raised"
    invoked,      \* per call: the sources invoked so far, in order, with what each did
    cacheOps,     \* per call: operations issued against the STATUS item
    saved,        \* per call: what _save_to_dynamodb did
    seen,         \* per call: the STATUS item, and the list it was written from, when the call started
    lastWritten,  \* the list of the last put_item the STATUS item accepted
    putResp,      \* the PUT /admin/internet-dashboard/sites just answered: body, status code
    remote,       \* per call, per source invoked: the remote calls it made and what they gave
    response,     \* per call: the response of getInternetDashboard, and its calls of the fetch
    opStore,      \* highlights: the OUR_PROPERTIES / SITES item
    opPc,         \* highlights: position of the getOurProperties request
    opOut,        \* highlights: what the try body of getOurProperties got from the fetch
    opResp,       \* highlights: the response of getOurProperties
    nIn,          \* normalization run: the raw argument of _normalize_url
    nOut,         \* normalization run: what _normalize_url returned
    nDone,        \* normalization run: _normalize_url has returned
    mKind,        \* matching run: the provider, "uptimerobot" or "statuscake"
    mTargets,     \* matching run: the sites argument
    mMonitors,    \* matching run: the monitors / tests of the remote response
    mProbe,       \* matching run: what _check_url_http would give for the targets
    mOut,         \* matching run: what the provider returned
    mDone,        \* matching run: the provider has returned
    clsIn,        \* classifier run: the (status_code, response_time_ms) input
    clsOut,       \* classifier run: the classification, "none" before the call
    pTargets,     \* probe run: the sites argument of _fetch_level1_http
    wstate,       \* probe run: per future "queued", "running" or "done"
    wres,         \* probe run: per future what _check_url_http returned
    d2r,          \* probe run: domain_to_result, a dict in insertion order
    collected,    \* probe run: the futures as_completed has yielded
    deadlineHit,     \* probe run: as_completed raised TimeoutError
    ppc,          \* probe run: position of the calling thread
    pout          \* probe run: the list _fetch_level1_http returned

vars == <<tableName, urKey, scKey, cfg, cache, now, pc, sites, result, src, ret,
          outcome, invoked, cacheOps, saved, seen, lastWritten, putResp, remote,
          response, opStore, opPc, opOut, opResp, nIn, nOut, nDone,
          mKind, mTargets, mMonitors, mProbe, mOut, mDone, clsIn, clsOut,
          pTargets, wstate, wres, d2r, collected, deadlineHit, ppc, pout>>

\* variables of the classifier run, untouched by the request handlers
clsVars == <<clsIn, clsOut>>

\* variables of the probe run, untouched by the request handlers
probeVars == <<pTargets, wstate, wres, d2r, collected, deadlineHit, ppc, pout>>

\* variables of the highlights request, untouched by the dashboard handlers
opVars == <<opStore, opPc, opOut, opResp>>

\* variables of the normalization run, untouched by the request handlers
normVars == <<nIn, nOut, nDone>>

\* variables of the matching run, untouched by the request handlers
matchVars == <<mKind, mTargets, mMonitors, mProbe, mOut, mDone>>

envVars == <<tableName, urKey, scKey, clsVars, probeVars, opVars, normVars, matchVars>>

-----------------------------------------------------------------------------
(* Bounds *)

MaxPasses == 2

Calls == {"c1", "c2"}

-----------------------------------------------------------------------------
(* Values *)

None == <<>>

Some(x) == <<x>>

Range(s) == {s[i] : i \in 1..Len(s)}

DomA == <<"a">>

DomB == <<"b">>

DomG == <<"g">>

DomF == <<"f">>

DEFAULT_SITES == <<DomG, DomF>>

SLOW_MS == 3000

RECURSIVE LStrip(_)
LStrip(s) == IF s # <<>> /\ Head(s) = " " THEN LStrip(Tail(s)) ELSE s

RECURSIVE RStrip(_)
RStrip(s) == IF s # <<>> /\ s[Len(s)] = " " THEN RStrip(SubSeq(s, 1, Len(s) - 1)) ELSE s

Strip(s) == RStrip(LStrip(s))

RECURSIVE StripNonBlank(_)
StripNonBlank(raw) ==
    IF raw = <<>> THEN <<>>
    ELSE IF Strip(Head(raw)) # <<>>
         THEN <<Strip(Head(raw))>> \o StripNonBlank(Tail(raw))
         ELSE StripNonBlank(Tail(raw))

-----------------------------------------------------------------------------
(* json.dumps / json.loads *)

\* variant: the latency is not serialized
EntryToJson_noLatency(e) == <<e.domain, e.status, e.source, None>>

EntryToJson(e) == <<e.domain, e.status, e.source, e.responseTimeMs>>

EntryFromJson(t) ==
    [domain |-> t[1], status |-> t[2], source |-> t[3], responseTimeMs |-> t[4]]

JsonDumpsResult(list) ==
    [kind |-> "array", elems |-> [i \in 1..Len(list) |-> EntryToJson(list[i])]]

JsonLoadsResult(text) ==
    [i \in 1..Len(text.elems) |-> EntryFromJson(text.elems[i])]

JsonDumpsSites(list) == [kind |-> "array", elems |-> list]

JsonLoadsSites(text) == text.elems

NoText == [kind |-> "object", elems |-> <<>>]

CorruptText == [kind |-> "corrupt", elems |-> <<>>]

NoItem == [present |-> FALSE, data |-> NoText, updatedAt |-> 0]

NoCfg == [present |-> FALSE, sites |-> NoText]

-----------------------------------------------------------------------------
(* Provider return values *)

ListOut(items) == [kind |-> "list", items |-> items]

NoneOut == [kind |-> "none", items |-> <<>>]

RaiseOut == [kind |-> "raise", items |-> <<>>]

Entry(domain, status, source, ms) ==
    [domain |-> domain, status |-> status, source |-> source, responseTimeMs |-> ms]

-----------------------------------------------------------------------------
(* Target List Provider *)

\* get_dashboard_sites(): readOk is FALSE when boto3 / get_item raises
get_dashboard_sites(tn, item, readOk) ==
    IF ~tn THEN DEFAULT_SITES
    ELSE IF ~readOk THEN DEFAULT_SITES
    ELSE IF ~item.present THEN DEFAULT_SITES
    ELSE IF item.sites.kind = "corrupt" THEN DEFAULT_SITES
    ELSE IF item.sites.kind = "array" /\ Len(JsonLoadsSites(item.sites)) >= 1
         THEN StripNonBlank(JsonLoadsSites(item.sites))
         ELSE DEFAULT_SITES

-----------------------------------------------------------------------------
(* Status Classifier *)

\* variant: the slow threshold compared with > instead of >=
status_from_http_strict(status_code, response_time_ms) ==
    IF status_code = None THEN "down"
    ELSE IF 200 <= status_code[1] /\ status_code[1] < 300
         THEN IF response_time_ms # None /\ response_time_ms[1] > SLOW_MS
              THEN "degraded"
              ELSE "up"
    ELSE IF 300 <= status_code[1] /\ status_code[1] < 500 THEN "degraded"
    ELSE "down"

status_from_http(status_code, response_time_ms) ==
    IF status_code = None THEN "down"
    ELSE IF 200 <= status_code[1] /\ status_code[1] < 300
         THEN IF response_time_ms # None /\ response_time_ms[1] >= SLOW_MS
              THEN "degraded"
              ELSE "up"
    ELSE IF 300 <= status_code[1] /\ status_code[1] < 500 THEN "degraded"
    ELSE "down"

-----------------------------------------------------------------------------
(* Level 1: direct probe *)

\* what _check_url_http can return for one URL: (status, elapsed_ms) or (None, None)
HttpOutcomes ==
    { [code |-> None, ms |-> None],
      [code |-> Some(200), ms |-> Some(50)],
      [code |-> Some(200), ms |-> Some(3000)] }

check_one(domain, raw) ==
    Entry(domain, status_from_http(raw.code, raw.ms), "http", raw.ms)

\* w is domain_to_result before classification: the outcome of the last
\* completed check of each domain.  timedOut: as_completed(timeout=15) raised
\* TimeoutError because some future was still pending at the deadline.
fetch_level1_http(s, w, timedOut) ==
    IF timedOut THEN RaiseOut
    ELSE ListOut([i \in 1..Len(s) |-> check_one(s[i], w[s[i]])])

Level1Outs(s) ==
    { fetch_level1_http(s, w, FALSE) : w \in [Range(s) -> HttpOutcomes] }
    \cup (IF s # <<>> THEN {fetch_level1_http(s, [d \in Range(s) |-> [code |-> None, ms |-> None]], TRUE)}
          ELSE {})

-----------------------------------------------------------------------------
(* Level 2: UptimeRobot *)

\* by_url.get(domain): no monitor, or a monitor with an optional "status"
URMonitors == {None} \cup {Some([status |-> st]) : st \in {None, Some(0), Some(2)}}

uptimerobot_status(m) ==
    IF m = None THEN "down"
    ELSE LET st == IF m[1].status = None THEN 9 ELSE m[1].status[1]
         IN  IF st = 2 THEN "up" ELSE IF st \in {8, 9} THEN "degraded" ELSE "down"

\* variant: the key test of lines 134-135 left out
fetch_level2_uptimerobot_ungated(s, key, callOk, by_url) ==
    IF ~callOk THEN NoneOut
    ELSE ListOut([i \in 1..Len(s) |->
                    Entry(s[i], uptimerobot_status(by_url[s[i]]), "uptimerobot", None)])

\* callOk is FALSE when urlopen / json.loads raises inside the try block
fetch_level2_uptimerobot(s, key, callOk, by_url) ==
    IF ~key THEN NoneOut
    ELSE IF ~callOk THEN NoneOut
    ELSE ListOut([i \in 1..Len(s) |->
                    Entry(s[i], uptimerobot_status(by_url[s[i]]), "uptimerobot", None)])

Level2Outs(s, key) ==
    { fetch_level2_uptimerobot(s, key, ok, m) :
        ok \in BOOLEAN, m \in [Range(s) -> URMonitors] }

-----------------------------------------------------------------------------
(* Level 3: StatusCake *)

SCTests == {None} \cup {Some([uptime |-> u]) : u \in {None, Some(97), Some(99)}}

\* variant: the up band starting above 99
statuscake_status_gt99(t) ==
    IF t = None THEN "down"
    ELSE LET uptime == IF t[1].uptime = None THEN 0 ELSE t[1].uptime[1]
         IN  IF uptime > 99 THEN "up" ELSE IF uptime >= 95 THEN "degraded" ELSE "down"

statuscake_status(t) ==
    IF t = None THEN "down"
    ELSE LET uptime == IF t[1].uptime = None THEN 0 ELSE t[1].uptime[1]
         IN  IF uptime >= 99 THEN "up" ELSE IF uptime >= 95 THEN "degraded" ELSE "down"

\* variant: a target without a matching test gets no entry
fetch_level3_statuscake_skipUnmatched(s, key, callOk, by_url) ==
    IF ~key THEN NoneOut
    ELSE IF ~callOk THEN NoneOut
    ELSE ListOut(SelectSeq([i \in 1..Len(s) |->
                              Entry(s[i], statuscake_status(by_url[s[i]]), "statuscake", None)],
                           LAMBDA e : by_url[e.domain] # None))

fetch_level3_statuscake(s, key, callOk, by_url) ==
    IF ~key THEN NoneOut
    ELSE IF ~callOk THEN NoneOut
    ELSE ListOut([i \in 1..Len(s) |->
                    Entry(s[i], statuscake_status(by_url[s[i]]), "statuscake", None)])

Level3Outs(s, key) ==
    { fetch_level3_statuscake(s, key, ok, m) :
        ok \in BOOLEAN, m \in [Range(s) -> SCTests] }

-----------------------------------------------------------------------------
(* Level 4: Site Informant *)

\* one response per target: None when the call raised, else the JSON body;
\* averageResponseMs is whatever number the remote API sends
SIResponses ==
    { None,
      Some([isOnline |-> TRUE, uptimePercent |-> 90, averageResponseMs |-> Some(120)]),
      Some([isOnline |-> FALSE, uptimePercent |-> 90, averageResponseMs |-> Some(-1)]),
      Some([isOnline |-> FALSE, uptimePercent |-> 89, averageResponseMs |-> Some(120)]) }

site_informant_entry(domain, r) ==
    IF r = None THEN Entry(domain, "down", "siteinformant", None)
    ELSE LET status == IF r[1].isOnline THEN "up"
                       ELSE IF r[1].uptimePercent >= 90 THEN "degraded" ELSE "down"
         IN  Entry(domain, status, "siteinformant", r[1].averageResponseMs)

\* variant: the results returned whether or not one is valid
fetch_level4_site_informant_noValidTest(s, resp) ==
    ListOut([i \in 1..Len(s) |-> site_informant_entry(s[i], resp[i])])

fetch_level4_site_informant(s, resp) ==
    LET results == [i \in 1..Len(s) |-> site_informant_entry(s[i], resp[i])]
        has_valid == \E i \in 1..Len(s) : results[i].status # "down"
    IN  IF has_valid THEN ListOut(results) ELSE NoneOut

Level4Outs(s) ==
    { fetch_level4_site_informant(s, r) : r \in [1..Len(s) -> SIResponses] }

-----------------------------------------------------------------------------
(* Level 5: cache load, and cache save *)

\* variant: the length test written > 1 instead of >= 1
fetch_level5_dynamodb_gt1(tn, item, readOk) ==
    IF ~tn THEN NoneOut
    ELSE IF ~readOk THEN NoneOut
    ELSE IF ~item.present THEN NoneOut
    ELSE IF item.data.kind = "corrupt" THEN NoneOut
    ELSE IF item.data.kind = "array" /\ Len(item.data.elems) > 1
         THEN ListOut(JsonLoadsResult(item.data))
         ELSE NoneOut

\* readOk is FALSE when boto3 / get_item raises
fetch_level5_dynamodb(tn, item, readOk) ==
    IF ~tn THEN NoneOut
    ELSE IF ~readOk THEN NoneOut
    ELSE IF ~item.present THEN NoneOut
    ELSE IF item.data.kind = "corrupt" THEN NoneOut
    ELSE IF item.data.kind = "array" /\ Len(item.data.elems) >= 1
         THEN ListOut(JsonLoadsResult(item.data))
         ELSE NoneOut

\* variant: an update in place, the stored entries after the first are kept
\* when the stored list has the length of the new one
save_to_dynamodb_partial(tn, item, list, t, writeOk) ==
    IF ~tn THEN item
    ELSE IF ~writeOk THEN item
    ELSE IF item.present /\ item.data.kind = "array" /\ Len(item.data.elems) = Len(list)
         THEN [present |-> TRUE,
               data |-> [kind |-> "array",
                         elems |-> [i \in 1..Len(list) |->
                                      IF i = 1 THEN EntryToJson(list[i])
                                      ELSE item.data.elems[i]]],
               updatedAt |-> t]
         ELSE [present |-> TRUE, data |-> JsonDumpsResult(list), updatedAt |-> t]

\* the STATUS item after _save_to_dynamodb(list) at time t; writeOk is FALSE
\* when boto3 / put_item raises
save_to_dynamodb(tn, item, list, t, writeOk) ==
    IF ~tn THEN item
    ELSE IF ~writeOk THEN item
    ELSE [present |-> TRUE, data |-> JsonDumpsResult(list), updatedAt |-> t]

\* variant: the emptiness tests left out
Accepted_anyList(out) == out.kind = "list"

\* result and isinstance(result, list) and len(result) >= 1
Accepted(out) == out.kind = "list" /\ Len(out.items) >= 1

-----------------------------------------------------------------------------
(* State machine *)

Blank == <<" ">>

PadB == <<" ", "b", " ">>

\* the SITES item as deployment finds it: absent, or holding any JSON text
InitCfgs ==
    {NoCfg} \cup
    { [present |-> TRUE, sites |-> t] :
        t \in {NoText, CorruptText, JsonDumpsSites(<<>>), JsonDumpsSites(<<Blank>>)} }

\* the body of a PUT: text that is not JSON, JSON that is not an object, or
\* an object whose "sites" value is not an array or is an array of strings
PutBodies ==
    { [json |-> "invalid", isList |-> FALSE, items |-> <<>>],
      [json |-> "other", isList |-> FALSE, items |-> <<>>],
      [json |-> "object", isList |-> FALSE, items |-> <<>>],
      [json |-> "object", isList |-> TRUE, items |-> <<>>],
      [json |-> "object", isList |-> TRUE, items |-> <<Blank>>],
      [json |-> "object", isList |-> TRUE, items |-> <<DomA>>],
      [json |-> "object", isList |-> TRUE, items |-> <<PadB, DomA>>] }

\* no PUT answered since the last fetch began
NoPut == [statusCode |-> 0, request |-> [json |-> "none", isList |-> FALSE, items |-> <<>>]]

Idle == [c \in Calls |-> "idle"]

NoSeen == [item |-> NoItem, list |-> <<>>]

NoInput == [code |-> None, ms |-> None]

\* no response built yet, the fetch not called yet
NoResp == [statusCode |-> 0, sites |-> NoText, error |-> FALSE, fetches |-> 0]

\* no request in progress
NoCalls ==
    /\ now = 0
    /\ pc = Idle
    /\ sites = [c \in Calls |-> <<>>]
    /\ result = [c \in Calls |-> <<>>]
    /\ src = [c \in Calls |-> "none"]
    /\ ret = [c \in Calls |-> <<>>]
    /\ outcome = [c \in Calls |-> "none"]
    /\ invoked = [c \in Calls |-> <<>>]
    /\ cacheOps = [c \in Calls |-> <<>>]
    /\ saved = [c \in Calls |-> "none"]
    /\ seen = [c \in Calls |-> NoSeen]
    /\ lastWritten = <<>>
    /\ putResp = NoPut
    /\ remote = [c \in Calls |-> <<>>]
    /\ response = [c \in Calls |-> NoResp]

\* no request in progress, nothing stored yet
Fresh ==
    /\ cache = NoItem
    /\ NoCalls

\* no item, no highlights request
OpIdle ==
    /\ opStore = NoCfg
    /\ opPc = "idle"
    /\ opOut = NoneOut
    /\ opResp = NoResp

\* no matching run
MatchIdle ==
    /\ mKind = "none"
    /\ mTargets = <<>>
    /\ mMonitors = <<>>
    /\ mProbe = NoInput
    /\ mOut = NoneOut
    /\ mDone = FALSE

\* no normalization run
NormIdle ==
    /\ nIn = <<>>
    /\ nOut = None
    /\ nDone = FALSE

\* no probe run in progress
ProbeIdle ==
    /\ pTargets = <<>>
    /\ wstate = <<>>
    /\ wres = <<>>
    /\ d2r = <<>>
    /\ collected = {}
    /\ deadlineHit = FALSE
    /\ ppc = "idle"
    /\ pout = <<>>

Init ==
    /\ tableName \in BOOLEAN
    /\ urKey \in BOOLEAN
    /\ scKey \in BOOLEAN
    /\ cfg \in (IF tableName THEN InitCfgs ELSE {NoCfg})
    /\ Fresh
    /\ clsIn = NoInput
    /\ clsOut = "none"
    /\ ProbeIdle
    /\ OpIdle
    /\ NormIdle
    /\ MatchIdle

\* fetchDashboard line 292: sites = get_dashboard_sites()
Start(c) ==
    /\ pc[c] = "idle"
    /\ now < MaxPasses
    /\ now' = now + 1
    /\ \E readOk \in BOOLEAN :
         sites' = [sites EXCEPT ![c] = get_dashboard_sites(tableName, cfg, readOk)]
    /\ pc' = [pc EXCEPT ![c] = "http"]
    /\ seen' = [seen EXCEPT ![c] = [item |-> cache, list |-> lastWritten]]
    /\ response' = [response EXCEPT ![c].fetches = @ + 1]
    /\ putResp' = NoPut
    /\ UNCHANGED <<envVars, cfg, cache, result, src, ret, outcome, invoked,
                   cacheOps, saved, lastWritten, remote>>

Did(name, out) == [name |-> name, kind |-> out.kind, items |-> out.items]

\* variant: no try/except around fn(), a raising source ends the call
LoopStep_raiseAborts(c, name, next, out) ==
    /\ invoked' = [invoked EXCEPT ![c] = Append(@, Did(name, out))]
    /\ IF out.kind = "raise"
       THEN /\ pc' = [pc EXCEPT ![c] = "done"]
            /\ outcome' = [outcome EXCEPT ![c] = "raised"]
            /\ UNCHANGED <<result, src>>
       ELSE IF Accepted(out)
       THEN /\ result' = [result EXCEPT ![c] = out.items]
            /\ src' = [src EXCEPT ![c] = name]
            /\ pc' = [pc EXCEPT ![c] = "save"]
            /\ UNCHANGED outcome
       ELSE /\ pc' = [pc EXCEPT ![c] = next]
            /\ UNCHANGED <<result, src, outcome>>
    /\ UNCHANGED <<envVars, cfg, cache, now, sites, ret, saved, seen,
                   lastWritten, putResp, response>>

\* one iteration of the loop of fetchDashboard (lines 300-307) up to the
\* call of _save_to_dynamodb: out is what fn() did
LoopStep(c, name, next, out) ==
    /\ invoked' = [invoked EXCEPT ![c] = Append(@, Did(name, out))]
    /\ IF Accepted(out)
       THEN /\ result' = [result EXCEPT ![c] = out.items]
            /\ src' = [src EXCEPT ![c] = name]
            /\ pc' = [pc EXCEPT ![c] = "save"]
       ELSE /\ pc' = [pc EXCEPT ![c] = next]
            /\ UNCHANGED <<result, src>>
    /\ UNCHANGED <<envVars, cfg, cache, now, sites, ret, outcome, saved, seen,
                   lastWritten, putResp, response>>

\* what one invocation of a source did remotely: calls is the number of
\* requests it sent, ok whether a response came back, usable the number of
\* targets the responses had an entry for
Remote(name, calls, ok, usable) ==
    [name |-> name, calls |-> calls, ok |-> ok, usable |-> usable]

\* line 125: one check per target
level1_calls(s) == Len(s)

\* lines 134-145: one POST getMonitors, behind the key test
uptimerobot_calls(key) == IF key THEN 1 ELSE 0

\* lines 176-184: one GET /v1/uptime, behind the key test
statuscake_calls(key) == IF key THEN 1 ELSE 0

\* lines 216-220: one GET per target, no key
site_informant_calls(s) == Len(s)

Http(c) ==
    /\ pc[c] = "http"
    /\ \E out \in Level1Outs(sites[c]) :
         /\ LoopStep(c, "http", "uptimerobot", out)
         /\ remote' = [remote EXCEPT ![c] =
                Append(@, Remote("http", level1_calls(sites[c]), out.kind = "list",
                                 Len(out.items)))]
    /\ UNCHANGED cacheOps

UptimeRobot(c) ==
    /\ pc[c] = "uptimerobot"
    /\ \E ok \in BOOLEAN, m \in [Range(sites[c]) -> URMonitors] :
         LET has(d) == m[d] # None
         IN  /\ LoopStep(c, "uptimerobot", "statuscake",
                         fetch_level2_uptimerobot(sites[c], urKey, ok, m))
             /\ remote' = [remote EXCEPT ![c] =
                    Append(@, Remote("uptimerobot", uptimerobot_calls(urKey), urKey /\ ok,
                                     IF urKey /\ ok
                                     THEN Cardinality({i \in 1..Len(sites[c]) :
                                                         has(sites[c][i])})
                                     ELSE 0))]
    /\ UNCHANGED cacheOps

StatusCake(c) ==
    /\ pc[c] = "statuscake"
    /\ \E ok \in BOOLEAN, m \in [Range(sites[c]) -> SCTests] :
         LET has(d) == m[d] # None
         IN  /\ LoopStep(c, "statuscake", "siteinformant",
                         fetch_level3_statuscake(sites[c], scKey, ok, m))
             /\ remote' = [remote EXCEPT ![c] =
                    Append(@, Remote("statuscake", statuscake_calls(scKey), scKey /\ ok,
                                     IF scKey /\ ok
                                     THEN Cardinality({i \in 1..Len(sites[c]) :
                                                         has(sites[c][i])})
                                     ELSE 0))]
    /\ UNCHANGED cacheOps

SiteInformant(c) ==
    /\ pc[c] = "siteinformant"
    /\ \E r \in [1..Len(sites[c]) -> SIResponses] :
         LET up(i) == site_informant_entry(sites[c][i], r[i]).status # "down"
         IN  /\ LoopStep(c, "siteinformant", "cache",
                         fetch_level4_site_informant(sites[c], r))
             /\ remote' = [remote EXCEPT ![c] =
                    Append(@, Remote("siteinformant", site_informant_calls(sites[c]),
                                     \E i \in 1..Len(sites[c]) : r[i] # None,
                                     Cardinality({i \in 1..Len(sites[c]) : up(i)})))]
    /\ UNCHANGED cacheOps

\* variant: _fetch_level5_dynamodb without its try/except, a failed get_item
\* reaches the loop of fetchDashboard as an exception
CacheLoad_noCatch(c) ==
    /\ pc[c] = "cache"
    /\ \E readOk \in BOOLEAN :
         /\ LoopStep(c, "cache", "fallback",
                     IF tableName /\ ~readOk THEN RaiseOut
                     ELSE fetch_level5_dynamodb(tableName, cache, readOk))
         /\ remote' = [remote EXCEPT ![c] =
                Append(@, Remote("cache", 0, tableName /\ readOk, 0))]
         /\ cacheOps' = [cacheOps EXCEPT ![c] =
                IF ~tableName THEN @
                ELSE Append(@, IF readOk THEN "read" ELSE "read_failed")]

CacheLoad(c) ==
    /\ pc[c] = "cache"
    /\ \E readOk \in BOOLEAN :
         /\ LoopStep(c, "cache", "fallback", fetch_level5_dynamodb(tableName, cache, readOk))
         /\ remote' = [remote EXCEPT ![c] =
                Append(@, Remote("cache", 0, tableName /\ readOk, 0))]
         /\ cacheOps' = [cacheOps EXCEPT ![c] =
                IF ~tableName THEN @
                ELSE Append(@, IF readOk THEN "read" ELSE "read_failed")]

\* variant: _save_to_dynamodb without its try/except, a failed put_item
\* propagates out of fetchDashboard
Save_noCatch(c) ==
    /\ pc[c] = "save"
    /\ \E writeOk \in BOOLEAN :
         /\ cache' = save_to_dynamodb(tableName, cache, result[c], now, writeOk)
         /\ saved' = [saved EXCEPT ![c] = IF ~tableName THEN "notable"
                                          ELSE IF writeOk THEN "ok" ELSE "failed"]
         /\ lastWritten' = IF tableName /\ writeOk THEN result[c] ELSE lastWritten
         /\ cacheOps' = [cacheOps EXCEPT ![c] =
                IF ~tableName THEN @
                ELSE Append(@, IF writeOk THEN "write" ELSE "write_failed")]
         /\ IF tableName /\ ~writeOk
            THEN outcome' = [outcome EXCEPT ![c] = "raised"] /\ ret' = ret
            ELSE outcome' = [outcome EXCEPT ![c] = "returned"]
                 /\ ret' = [ret EXCEPT ![c] = result[c]]
    /\ pc' = [pc EXCEPT ![c] = "done"]
    /\ UNCHANGED <<envVars, cfg, now, sites, result, src, invoked, seen, putResp, remote,
                   response>>

\* lines 304-305: _save_to_dynamodb(result); return result
Save(c) ==
    /\ pc[c] = "save"
    /\ \E writeOk \in BOOLEAN :
         /\ cache' = save_to_dynamodb(tableName, cache, result[c], now, writeOk)
         /\ saved' = [saved EXCEPT ![c] = IF ~tableName THEN "notable"
                                          ELSE IF writeOk THEN "ok" ELSE "failed"]
         /\ lastWritten' = IF tableName /\ writeOk THEN result[c] ELSE lastWritten
         /\ cacheOps' = [cacheOps EXCEPT ![c] =
                IF ~tableName THEN @
                ELSE Append(@, IF writeOk THEN "write" ELSE "write_failed")]
    /\ ret' = [ret EXCEPT ![c] = result[c]]
    /\ outcome' = [outcome EXCEPT ![c] = "returned"]
    /\ pc' = [pc EXCEPT ![c] = "done"]
    /\ UNCHANGED <<envVars, cfg, now, sites, result, src, invoked, seen, putResp, remote,
                   response>>

\* variant: the final step's result is written to the cache like a loop
\* step's, whatever its length
Fallback_saved(c) ==
    /\ pc[c] = "fallback"
    /\ \E out \in Level1Outs(sites[c]) :
         /\ ret' = [ret EXCEPT ![c] = out.items]
         /\ outcome' = [outcome EXCEPT ![c] = IF out.kind = "raise" THEN "raised" ELSE "returned"]
         /\ src' = [src EXCEPT ![c] = "fallback"]
         /\ invoked' = [invoked EXCEPT ![c] = Append(@, Did("fallback", out))]
         /\ remote' = [remote EXCEPT ![c] =
                Append(@, Remote("fallback", level1_calls(sites[c]), out.kind = "list",
                                 Len(out.items)))]
         /\ cache' = IF out.kind = "list"
                     THEN save_to_dynamodb(tableName, cache, out.items, now, TRUE)
                     ELSE cache
         /\ lastWritten' = IF out.kind = "list" /\ tableName THEN out.items ELSE lastWritten
    /\ pc' = [pc EXCEPT ![c] = "done"]
    /\ UNCHANGED <<envVars, cfg, now, sites, result, cacheOps, saved, seen,
                   putResp, response>>

\* line 308: return _fetch_level1_http(sites), outside the try block
Fallback(c) ==
    /\ pc[c] = "fallback"
    /\ \E out \in Level1Outs(sites[c]) :
         /\ ret' = [ret EXCEPT ![c] = out.items]
         /\ outcome' = [outcome EXCEPT ![c] = IF out.kind = "raise" THEN "raised" ELSE "returned"]
         /\ src' = [src EXCEPT ![c] = "fallback"]
         /\ invoked' = [invoked EXCEPT ![c] = Append(@, Did("fallback", out))]
         /\ remote' = [remote EXCEPT ![c] =
                Append(@, Remote("fallback", level1_calls(sites[c]), out.kind = "list",
                                 Len(out.items)))]
    /\ pc' = [pc EXCEPT ![c] = "done"]
    /\ UNCHANGED <<envVars, cfg, cache, now, sites, result, cacheOps, saved, seen,
                   lastWritten, putResp, response>>

\* common/response.py jsonResponse(body, statusCode): the body is encoded
jsonResponse(sitesList, hasError, statusCode, fetches) ==
    [statusCode |-> statusCode, sites |-> JsonDumpsResult(sitesList), error |-> hasError,
     fetches |-> fetches]

\* variant: the except branch answering 200 like the success branch
getInternetDashboard_always200(kind, list, fetches) ==
    IF kind = "raised" THEN jsonResponse(<<>>, TRUE, 200, fetches)
    ELSE jsonResponse(list, FALSE, 200, fetches)

\* handler.py getInternetDashboard, after fetchDashboard() returned list or
\* raised: lines 468 and 469-471
getInternetDashboard(kind, list, fetches) ==
    IF kind = "raised" THEN jsonResponse(<<>>, TRUE, 500, fetches)
    ELSE jsonResponse(list, FALSE, 200, fetches)

\* fetchDashboard has returned or raised and its locals are gone;
\* getInternetDashboard builds its response from what it got
Respond(c) ==
    /\ pc[c] = "done"
    /\ pc' = [pc EXCEPT ![c] = "responded"]
    /\ response' = [response EXCEPT ![c] = getInternetDashboard(outcome[c], ret[c], @.fetches)]
    /\ sites' = [sites EXCEPT ![c] = <<>>]
    /\ result' = [result EXCEPT ![c] = <<>>]
    /\ src' = [src EXCEPT ![c] = "none"]
    /\ invoked' = [invoked EXCEPT ![c] = <<>>]
    /\ cacheOps' = [cacheOps EXCEPT ![c] = <<>>]
    /\ saved' = [saved EXCEPT ![c] = "none"]
    /\ seen' = [seen EXCEPT ![c] = NoSeen]
    /\ remote' = [remote EXCEPT ![c] = <<>>]
    /\ UNCHANGED <<envVars, cfg, cache, now, ret, outcome, lastWritten, putResp>>

\* the response has gone to the client
Reply(c) ==
    /\ pc[c] = "responded"
    /\ pc' = [pc EXCEPT ![c] = "idle"]
    /\ response' = [response EXCEPT ![c] = NoResp]
    /\ ret' = [ret EXCEPT ![c] = <<>>]
    /\ outcome' = [outcome EXCEPT ![c] = "none"]
    /\ UNCHANGED <<envVars, cfg, cache, now, sites, result, src, invoked, cacheOps, saved,
                   seen, lastWritten, putResp, remote>>

\* fetchDashboard called outside the HTTP handler: the caller has taken the
\* outcome, the call's locals are gone
Return(c) ==
    /\ pc[c] = "done"
    /\ response' = [response EXCEPT ![c] = NoResp]
    /\ pc' = [pc EXCEPT ![c] = "idle"]
    /\ sites' = [sites EXCEPT ![c] = <<>>]
    /\ result' = [result EXCEPT ![c] = <<>>]
    /\ src' = [src EXCEPT ![c] = "none"]
    /\ ret' = [ret EXCEPT ![c] = <<>>]
    /\ outcome' = [outcome EXCEPT ![c] = "none"]
    /\ invoked' = [invoked EXCEPT ![c] = <<>>]
    /\ cacheOps' = [cacheOps EXCEPT ![c] = <<>>]
    /\ saved' = [saved EXCEPT ![c] = "none"]
    /\ seen' = [seen EXCEPT ![c] = NoSeen]
    /\ remote' = [remote EXCEPT ![c] = <<>>]
    /\ UNCHANGED <<envVars, cfg, cache, now, lastWritten, putResp>>

\* save_dashboard_sites(sites): the SITES item afterwards
save_dashboard_sites(tn, item, list, writeOk) ==
    IF ~tn THEN item
    ELSE IF ~writeOk THEN item
    ELSE [present |-> TRUE, sites |-> JsonDumpsSites(list)]

\* variant: the test for an empty cleaned list left out
putInternetDashboardSites_noEmptyTest(body, tn, item, writeOk) ==
    LET cleaned == StripNonBlank(body.items)
    IN  IF body.json = "invalid" THEN [statusCode |-> 400, item |-> item]
        ELSE IF body.json # "object" THEN [statusCode |-> 500, item |-> item]
        ELSE IF ~body.isList THEN [statusCode |-> 400, item |-> item]
        ELSE [statusCode |-> IF tn /\ writeOk THEN 200 ELSE 500,
              item |-> save_dashboard_sites(tn, item, cleaned, writeOk)]

\* putInternetDashboardSites, for a caller that passed _requireAdmin: the
\* status code answered and the SITES item afterwards. A body that is not
\* JSON raises JSONDecodeError (400); JSON that is not an object has no get
\* and ends in the general except branch (500)
putInternetDashboardSites(body, tn, item, writeOk) ==
    LET cleaned == StripNonBlank(body.items)
    IN  IF body.json = "invalid" THEN [statusCode |-> 400, item |-> item]
        ELSE IF body.json # "object" THEN [statusCode |-> 500, item |-> item]
        ELSE IF ~body.isList THEN [statusCode |-> 400, item |-> item]
        ELSE IF cleaned = <<>> THEN [statusCode |-> 400, item |-> item]
        ELSE [statusCode |-> IF tn /\ writeOk THEN 200 ELSE 500,
              item |-> save_dashboard_sites(tn, item, cleaned, writeOk)]

\* one PUT /admin/internet-dashboard/sites request, served between fetches
PutSites ==
    \E body \in PutBodies, writeOk \in BOOLEAN :
        LET put == putInternetDashboardSites(body, tableName, cfg, writeOk)
        IN  /\ pc = Idle
            /\ cfg' = put.item
            /\ putResp' = [statusCode |-> put.statusCode, request |-> body]
            /\ UNCHANGED <<envVars, cache, now, pc, sites, result, src, ret, outcome,
                           invoked, cacheOps, saved, seen, lastWritten, remote,
                           response>>

\* one call of fetchDashboard
Fetch(c) ==
    \/ Start(c)
    \/ Http(c)
    \/ UptimeRobot(c)
    \/ StatusCake(c)
    \/ SiteInformant(c)
    \/ CacheLoad(c)
    \/ Save(c)
    \/ Fallback(c)

Pass(c) ==
    \/ Fetch(c)
    \/ Return(c)

\* one request for GET /internet-dashboard
Request(c) ==
    \/ Fetch(c)
    \/ Respond(c)
    \/ Reply(c)

\* requests served one after the other
Next ==
    \/ Pass("c1")
    \/ PutSites

Spec == Init /\ [][Next]_vars

-----------------------------------------------------------------------------
(* Classifier run: _status_from_http applied to one input *)

StatusCodes == {None} \cup {Some(n) : n \in {100, 199, 200, 204, 299, 300, 404, 499, 500, 503, 599, 600}}

Latencies == {None} \cup {Some(n) : n \in {0, 2999, 3000, 3001}}

InitClassify ==
    /\ tableName = FALSE
    /\ urKey = FALSE
    /\ scKey = FALSE
    /\ cfg = NoCfg
    /\ Fresh
    /\ clsIn \in [code : StatusCodes, ms : Latencies]
    /\ clsOut = "none"
    /\ ProbeIdle
    /\ OpIdle
    /\ NormIdle
    /\ MatchIdle

Classify ==
    /\ clsOut = "none"
    /\ clsOut' = status_from_http(clsIn.code, clsIn.ms)
    /\ UNCHANGED <<tableName, urKey, scKey, cfg, cache, now, pc, sites, result, src, ret,
                   outcome, invoked, cacheOps, saved, seen, lastWritten, putResp, remote,
                   response, clsIn, probeVars, opVars, normVars,
                   matchVars>>

NextClassify == Classify

SpecClassify == InitClassify /\ [][NextClassify]_vars

-----------------------------------------------------------------------------
(* Properties *)

Done(c) == pc[c] = "done"

Returned(c) == Done(c) /\ outcome[c] = "returned"

Secondaries == {"uptimerobot", "statuscake", "siteinformant"}

\* the fixed priority order of the cascade loop
Order == <<"http", "uptimerobot", "statuscake", "siteinformant", "cache">>

\* the i-th source invoked in the call gave a non-empty list
GaveList(c, i) == invoked[c][i].kind = "list" /\ Len(invoked[c][i].items) >= 1

\* in this pass the direct probe and the three secondary providers were all
\* tried and none gave a non-empty list
LiveAllFailed(c) ==
    /\ Len(invoked[c]) >= 4
    /\ \A i \in 1..4 : ~GaveList(c, i)

\* the entry at position i is for target i, for every target
OnePerTarget(list, targets) ==
    /\ Len(list) = Len(targets)
    /\ \A i \in 1..Len(targets) : list[i].domain = targets[i]

\* C1: for every non-empty resolved target list and whatever the providers
\* and the cache did, the returned list has the length of the target list and
\* its i-th entry is for the i-th target.
C1_SameLengthSameOrder ==
    \A c \in Calls :
        (Returned(c) /\ sites[c] # <<>>) => OnePerTarget(ret[c], sites[c])

\* C2: fetchDashboard never raises; every call ends by returning a list.
C2_NeverRaises ==
    \A c \in Calls : Done(c) => outcome[c] = "returned"

\* C3 (as claimed): if the direct probe and every secondary provider failed
\* or were absent in the pass and the cache held a snapshot, the call returns
\* exactly that snapshot's list.
C3_ReturnsSnapshot ==
    \A c \in Calls :
        (Done(c) /\ LiveAllFailed(c) /\ seen[c].item.present)
            => (outcome[c] = "returned" /\ ret[c] = seen[c].list)

\* C3 (amended): if the direct probe and every secondary provider failed or
\* were absent in the pass, the cache held a snapshot and the read of the
\* cache succeeded, the call returns exactly that snapshot's list.
C3_ReturnsSnapshotWhenRead ==
    \A c \in Calls :
        (Done(c) /\ LiveAllFailed(c) /\ seen[c].item.present
                 /\ cacheOps[c] # <<>> /\ cacheOps[c][1] = "read")
            => (outcome[c] = "returned" /\ ret[c] = seen[c].list)

C3_Witness ==
    \E c \in Calls :
        /\ Done(c) /\ LiveAllFailed(c) /\ seen[c].item.present
        /\ cacheOps[c] # <<>> /\ cacheOps[c][1] = "read"
        /\ invoked[c][1].kind = "raise"
        /\ ret[c] = seen[c].list
        /\ Len(ret[c]) = 2

\* C4: if the cache is empty and no secondary provider gives a result, the
\* call returns the direct probe's result, one entry per target, also when
\* every entry is down.
C4_DirectProbeResult ==
    \A c \in Calls :
        (Done(c) /\ ~seen[c].item.present /\ src[c] \notin Secondaries)
            => /\ outcome[c] = "returned"
               /\ OnePerTarget(ret[c], sites[c])
               /\ \A i \in 1..Len(ret[c]) : ret[c][i].source = "http"

C6_EmptyTargetsNothingDone ==
    \A c \in Calls :
        (Done(c) /\ sites[c] = <<>>)
            => (outcome[c] = "returned" /\ ret[c] = <<>>
                /\ invoked[c] = <<>> /\ cacheOps[c] = <<>>)

\* C7: the classifier maps every (status code or none, latency or none) to
\* exactly one of up, degraded, down: no response is down; 2xx with latency
\* unknown or below 3000 ms is up; 2xx with latency of 3000 ms or more is
\* degraded; 3xx and 4xx are degraded; 5xx is down whatever the latency.
C7_ClassifierTable ==
    clsOut # "none" =>
        LET code == clsIn.code
            ms == clsIn.ms
            in2xx == code # None /\ 200 <= code[1] /\ code[1] <= 299
            slow == ms # None /\ ms[1] >= 3000
        IN  /\ clsOut \in {"up", "degraded", "down"}
            /\ code = None => clsOut = "down"
            /\ (in2xx /\ ~slow) => clsOut = "up"
            /\ (in2xx /\ slow) => clsOut = "degraded"
            /\ (code # None /\ 300 <= code[1] /\ code[1] <= 499) => clsOut = "degraded"
            /\ (code # None /\ 500 <= code[1] /\ code[1] <= 599) => clsOut = "down"

C7_Witness ==
    /\ clsIn = [code |-> Some(200), ms |-> Some(3000)]
    /\ clsOut = "degraded"

\* the position after a source of the loop
After(name) ==
    CASE name = "http" -> "uptimerobot"
      [] name = "uptimerobot" -> "statuscake"
      [] name = "statuscake" -> "siteinformant"
      [] name = "siteinformant" -> "cache"
      [] name = "cache" -> "fallback"

Last(seq) == seq[Len(seq)]

\* C8: sources are tried in the order direct probe, UptimeRobot, StatusCake,
\* Site Informant, cache; the first that gives a non-empty list ends the pass
\* (nothing later in the order is invoked), that list is what the call
\* returns, and the loop ends a pass in no other way.
C8_FirstNonEmptyEndsPass ==
    \A c \in Calls :
        /\ \A i \in 1..Len(invoked[c]) :
              /\ i <= 5 => invoked[c][i].name = Order[i]
              /\ i > 5 => (i = 6 /\ invoked[c][i].name = "fallback")
              /\ (i <= 5 /\ GaveList(c, i))
                    => /\ i = Len(invoked[c])
                       /\ pc[c] \in {"save", "done"}
                       /\ src[c] = Order[i]
                       /\ Done(c) => (outcome[c] = "returned" /\ ret[c] = invoked[c][i].items)
                       /\ i < 5 => \A k \in 1..Len(cacheOps[c]) :
                                      cacheOps[c][k] \in {"write", "write_failed"}
        /\ (pc[c] \in {"save", "done"} /\ src[c] # "fallback")
              => (invoked[c] # <<>> /\ GaveList(c, Len(invoked[c])))

C8_Witness ==
    \E c \in Calls :
        /\ Returned(c)
        /\ src[c] = "statuscake"
        /\ Len(invoked[c]) = 3
        /\ ret[c] = invoked[c][3].items

\* C9: when a source invoked by the cascade loop raises, the error is caught
\* and the step does exactly what the step of an absent source does: the
\* call moves on to the next source in order, nothing is returned, saved or
\* written, so the rest of the pass runs as it would after an absent result.
C9_RaiseActsAsAbsent ==
    [][\A c \in Calls :
          (/\ pc[c] \in {Order[i] : i \in 1..5}
           /\ Len(invoked'[c]) = Len(invoked[c]) + 1
           /\ Last(invoked'[c]).kind = "raise")
            => /\ pc'[c] = After(pc[c])
               /\ outcome'[c] = "none"
               /\ result'[c] = result[c] /\ src'[c] = src[c] /\ ret'[c] = ret[c]
               /\ saved'[c] = saved[c] /\ cacheOps'[c] = cacheOps[c]
               /\ cache' = cache]_vars

C9_Witness ==
    \E c \in Calls :
        /\ Returned(c)
        /\ invoked[c][1].kind = "raise"
        /\ src[c] = "uptimerobot"

\* C10: a cache write that fails, or that is skipped because no table is
\* configured, does not change the outcome: the call does not raise and
\* returns the fresh list it was about to persist.
C10_SaveFailureHarmless ==
    \A c \in Calls :
        (Done(c) /\ saved[c] \in {"failed", "notable"})
            => /\ outcome[c] = "returned"
               /\ ret[c] = Last(invoked[c]).items
               /\ ret[c] # <<>>

C10_Witness ==
    \E c \in Calls :
        /\ Done(c) /\ saved[c] = "failed"
        /\ src[c] = "http"
        /\ ret[c] = Last(invoked[c]).items

-----------------------------------------------------------------------------
(* Probe run: one call of _fetch_level1_http, thread by thread *)

max_workers == 10

ProbeTargets ==
    { <<DomA>>, <<DomA, DomB>>, <<DomB, DomA>>, <<DomA, DomA>>, <<DomG, DomA, DomB>> }

\* domain_to_result[domain] = data on a dict kept as its (key, value) pairs
\* in insertion order
DictPut(dict, key, value) ==
    IF \E k \in 1..Len(dict) : dict[k].key = key
    THEN [k \in 1..Len(dict) |->
            IF dict[k].key = key THEN [key |-> key, value |-> value] ELSE dict[k]]
    ELSE Append(dict, [key |-> key, value |-> value])

DictGet(dict, key) ==
    dict[CHOOSE k \in 1..Len(dict) : dict[k].key = key].value

\* variant: list(domain_to_result.values()), the results in completion order
ProjectOnSites_values(dict, s) == [k \in 1..Len(dict) |-> dict[k].value]

\* line 129: [domain_to_result[d] for d in sites]
ProjectOnSites(dict, s) == [i \in 1..Len(s) |-> DictGet(dict, s[i])]

Futures == 1..Len(pTargets)

\* lines 124-125: the executor is entered and every check_one is submitted
InitProbe ==
    /\ tableName = FALSE
    /\ urKey = FALSE
    /\ scKey = FALSE
    /\ cfg = NoCfg
    /\ Fresh
    /\ clsIn = NoInput
    /\ clsOut = "none"
    /\ pTargets \in ProbeTargets
    /\ wstate = [i \in 1..Len(pTargets) |-> "queued"]
    /\ wres = [i \in 1..Len(pTargets) |-> NoInput]
    /\ d2r = <<>>
    /\ collected = {}
    /\ deadlineHit = FALSE
    /\ ppc = "collecting"
    /\ pout = <<>>
    /\ OpIdle
    /\ NormIdle
    /\ MatchIdle

mainVars == <<tableName, urKey, scKey, cfg, cache, now, pc, sites, result, src, ret,
              outcome, invoked, cacheOps, saved, seen, lastWritten, putResp, remote,
              response>>

\* a pool thread takes a queued work item
WorkerStart(i) ==
    /\ wstate[i] = "queued"
    /\ Cardinality({j \in Futures : wstate[j] = "running"}) < max_workers
    /\ wstate' = [wstate EXCEPT ![i] = "running"]
    /\ UNCHANGED <<mainVars, clsVars, opVars, normVars, matchVars, pTargets, wres, d2r, collected, deadlineHit, ppc, pout>>

\* check_one returns: _check_url_http gave (status, ms) or (None, None)
WorkerFinish(i) ==
    /\ wstate[i] = "running"
    /\ \E raw \in HttpOutcomes : wres' = [wres EXCEPT ![i] = raw]
    /\ wstate' = [wstate EXCEPT ![i] = "done"]
    /\ UNCHANGED <<mainVars, clsVars, opVars, normVars, matchVars, pTargets, d2r, collected, deadlineHit, ppc, pout>>

\* lines 126-128: as_completed yields a finished future, its result is stored
Collect(i) ==
    /\ ppc = "collecting"
    /\ wstate[i] = "done"
    /\ i \notin collected
    /\ collected' = collected \cup {i}
    /\ d2r' = DictPut(d2r, pTargets[i], check_one(pTargets[i], wres[i]))
    /\ UNCHANGED <<mainVars, clsVars, opVars, normVars, matchVars, pTargets, wstate, wres, deadlineHit, ppc, pout>>

\* line 126: as_completed is exhausted, the with block is left normally
AllCollected ==
    /\ ppc = "collecting"
    /\ collected = Futures
    /\ ppc' = "exiting"
    /\ UNCHANGED <<mainVars, clsVars, opVars, normVars, matchVars, pTargets, wstate, wres, d2r, collected, deadlineHit, pout>>

\* line 126: 15 s have passed with futures not yet yielded, as_completed
\* raises TimeoutError and the with block is left by the exception
Deadline ==
    /\ ppc = "collecting"
    /\ collected # Futures
    /\ deadlineHit' = TRUE
    /\ ppc' = "exiting"
    /\ UNCHANGED <<mainVars, clsVars, opVars, normVars, matchVars, pTargets, wstate, wres, d2r, collected, pout>>

\* line 124: ThreadPoolExecutor.__exit__ is shutdown(wait=True), it returns
\* once every submitted work item has run; then line 129 or the exception
ProbeExit ==
    /\ ppc = "exiting"
    /\ \A i \in Futures : wstate[i] = "done"
    /\ IF deadlineHit
       THEN ppc' = "raised" /\ pout' = pout
       ELSE ppc' = "returned" /\ pout' = ProjectOnSites(d2r, pTargets)
    /\ UNCHANGED <<mainVars, clsVars, opVars, normVars, matchVars, pTargets, wstate, wres, d2r, collected, deadlineHit>>

NextProbe ==
    \/ \E i \in Futures : WorkerStart(i)
    \/ \E i \in Futures : WorkerFinish(i)
    \/ \E i \in Futures : Collect(i)
    \/ AllCollected
    \/ Deadline
    \/ ProbeExit

SpecProbe == InitProbe /\ [][NextProbe]_vars

\* C11: the direct probe always returns exactly one result per target; a
\* target whose check failed or did not complete is in the result, down and
\* without latency.
C11_OneResultPerTarget ==
    ppc \in {"returned", "raised"} =>
        /\ ppc = "returned"
        /\ Len(pout) = Len(pTargets)
        /\ \A i \in Futures :
              (i \notin collected \/ wres[i].code = None)
                  => (pout[i].status = "down" /\ pout[i].responseTimeMs = None)

\* C12: the direct probe never raises to its caller, whatever checks fail
\* and whatever checks are still running when the 15 s deadline elapses.
C12_ProbeNeverRaises == ppc # "raised"

\* C13: whatever the interleaving and completion order of the checks, the
\* entry at position i of the returned list carries the domain of target i.
C13_InputOrder ==
    ppc = "returned" =>
        /\ Len(pout) = Len(pTargets)
        /\ \A i \in Futures : pout[i].domain = pTargets[i]

C13_Witness ==
    /\ ppc = "returned"
    /\ pTargets = <<DomG, DomA, DomB>>
    /\ d2r[1].key = DomB /\ d2r[2].key = DomA /\ d2r[3].key = DomG
    /\ pout[1].domain = DomG

\* C14: the fan-in hands control back as soon as all workers have completed
\* or the deadline has elapsed: once the deadline has elapsed the caller is
\* never held waiting for workers that are still queued or running.
C14_NoWaitAfterDeadline ==
    ~(/\ ppc = "exiting"
      /\ deadlineHit
      /\ \E i \in Futures : wstate[i] # "done")

-----------------------------------------------------------------------------
(* Properties of the secondary providers inside a pass *)

\* the providers that read a credential, and whether it is present
Credential(name) ==
    CASE name = "uptimerobot" -> urKey
      [] name = "statuscake" -> scKey
      [] OTHER -> FALSE

Keyed == {"uptimerobot", "statuscake"}

\* C15: a secondary provider returns absent, never a list, when its
\* credential is not configured, when its remote call fails outright, or when
\* the call succeeds but yields no usable entry for any target.
C15_AbsentWhenNothingUsable ==
    \A c \in Calls : \A i \in 1..Len(invoked[c]) :
        (/\ invoked[c][i].name \in Secondaries
         /\ \/ (invoked[c][i].name \in Keyed /\ ~Credential(invoked[c][i].name))
            \/ ~remote[c][i].ok
            \/ remote[c][i].usable = 0)
        => invoked[c][i].kind = "none"

\* C16 as stated: every secondary provider, Site Informant included, reports
\* absent and sends no request when no credential is configured for it.
C16_NoCredentialNoCall ==
    \A c \in Calls : \A i \in 1..Len(invoked[c]) :
        (invoked[c][i].name \in Secondaries /\ ~Credential(invoked[c][i].name))
        => (invoked[c][i].kind = "none" /\ remote[c][i].calls = 0)

\* C16 amended: UptimeRobot and StatusCake report absent and send no request
\* when their key is not configured; Site Informant reads no credential.
C16_KeyedProvidersGated ==
    \A c \in Calls : \A i \in 1..Len(invoked[c]) :
        (invoked[c][i].name \in Keyed /\ ~Credential(invoked[c][i].name))
        => (invoked[c][i].kind = "none" /\ remote[c][i].calls = 0)

\* a pass without either key went through both keyed providers, neither sent
\* a request, and Site Informant then sent one request per target
C16_Witness ==
    /\ ~urKey /\ ~scKey
    /\ Len(invoked["c1"]) >= 4
    /\ invoked["c1"][2].name = "uptimerobot" /\ invoked["c1"][2].kind = "none"
    /\ remote["c1"][2].calls = 0
    /\ invoked["c1"][3].name = "statuscake" /\ invoked["c1"][3].kind = "none"
    /\ remote["c1"][3].calls = 0
    /\ invoked["c1"][4].name = "siteinformant"
    /\ remote["c1"][4].calls = Len(sites["c1"]) /\ Len(sites["c1"]) >= 1

-----------------------------------------------------------------------------
(* Passes over a STATUS item that _fetch_level5_dynamodb cannot use *)

\* STATUS items whose data attribute is missing ("{}" by default, line 257),
\* is not JSON, or is the empty array
UnusableItems ==
    { NoItem,
      [present |-> TRUE, data |-> NoText, updatedAt |-> 0],
      [present |-> TRUE, data |-> CorruptText, updatedAt |-> 0],
      [present |-> TRUE, data |-> [kind |-> "array", elems |-> <<>>], updatedAt |-> 0] }

InitCorrupt ==
    /\ tableName \in BOOLEAN
    /\ urKey = FALSE
    /\ scKey = FALSE
    /\ cfg = NoCfg
    /\ cache \in (IF tableName THEN UnusableItems ELSE {NoItem})
    /\ NoCalls
    /\ clsIn = NoInput
    /\ clsOut = "none"
    /\ ProbeIdle
    /\ OpIdle
    /\ NormIdle
    /\ MatchIdle

SpecCorrupt == InitCorrupt /\ [][Next]_vars

\* the item holds nothing _fetch_level5_dynamodb returns
Unusable(item) ==
    \/ ~item.present
    \/ item.data.kind # "array"
    \/ Len(item.data.elems) = 0

\* C17: when the cache load finds no table, a failed read, no item, or a
\* payload that is corrupt or not a non-empty list, it returns absent without
\* raising, and the call goes on to the final unconditional step.
C17_UnusableCacheGoesToFinalStep ==
    [][\A c \in Calls :
          (/\ pc[c] = "cache" /\ pc'[c] # "cache"
           /\ \/ ~tableName
              \/ ~Last(remote'[c]).ok
              \/ Unusable(cache))
          => (/\ Last(invoked'[c]).name = "cache"
              /\ Last(invoked'[c]).kind = "none"
              /\ outcome'[c] = "none"
              /\ pc'[c] = "fallback")]_vars

\* the cache load read an item with a corrupt payload and the call is at the
\* final step
C17_Witness ==
    /\ pc["c1"] = "fallback"
    /\ Last(invoked["c1"]).name = "cache" /\ Last(invoked["c1"]).kind = "none"
    /\ Last(remote["c1"]).ok
    /\ cache.present /\ cache.data.kind = "corrupt"

-----------------------------------------------------------------------------
(* Concurrent calls of fetchDashboard: two requests served at the same time,
   their steps interleaved between the calls of the store *)

InitConc ==
    /\ tableName = TRUE
    /\ urKey = FALSE
    /\ scKey = FALSE
    /\ cfg = NoCfg
    /\ Fresh
    /\ clsIn = NoInput
    /\ clsOut = "none"
    /\ ProbeIdle
    /\ OpIdle
    /\ NormIdle
    /\ MatchIdle

\* two calls in two execution environments, one call each
NextConc == Fetch("c1") \/ Fetch("c2")

SpecConc == InitConc /\ [][NextConc]_vars

\* the list the STATUS item decodes to
Stored == JsonLoadsResult(cache.data)

\* C18: under any interleaving of concurrent calls every write of the cache
\* replaces the whole value by the complete result of the one call writing:
\* the cache always holds nothing or exactly the list of the last write,
\* never a mixture of two calls' entries.
C18_WholeValueOverwrite ==
    /\ [](cache.present => Stored = lastWritten)
    /\ [][cache' # cache =>
            \E c \in Calls :
                /\ pc[c] = "save" /\ pc'[c] = "done"
                /\ cache'.present
                /\ JsonLoadsResult(cache'.data) = result[c]
                /\ lastWritten' = result[c]]_vars

\* both calls have written different lists, c2 after c1, and the cache holds
\* the list of c2
C18_Witness ==
    /\ pc["c1"] = "done" /\ pc["c2"] = "done"
    /\ saved["c1"] = "ok" /\ saved["c2"] = "ok"
    /\ ret["c1"] # ret["c2"]
    /\ cache.present /\ cache.updatedAt = 2
    /\ seen["c2"].item = NoItem
    /\ Stored = ret["c2"]

-----------------------------------------------------------------------------
(* The public endpoints: GET /internet-dashboard served by a pass, and
   GET /recommended/highlights served from the OUR_PROPERTIES item
   (our_properties.py, handler.py getOurProperties) *)

Https == <<"h", "t", "t", "p", "s", ":", "/", "/">>

Http7 == <<"h", "t", "t", "p", ":", "/", "/">>

\* (s.get("description") or "").strip()[:255]
DESC_MAX == 255

\* str.lower() over the letters the stored values use
LowerCh(ch) == IF ch = "A" THEN "a" ELSE IF ch = "B" THEN "b" ELSE ch

Lower(s) == [i \in 1..Len(s) |-> LowerCh(s[i])]

StartsWith(s, p) == Len(s) >= Len(p) /\ SubSeq(s, 1, Len(p)) = p

RECURSIVE UpToDelim(_)
UpToDelim(s) ==
    IF s = <<>> \/ Head(s) \in {"/", "?", "#"} THEN <<>>
    ELSE <<Head(s)>> \o UpToDelim(Tail(s))

\* urlparse(s).netloc for s that starts with http:// or https://
Netloc(s) ==
    IF StartsWith(s, Https) THEN UpToDelim(SubSeq(s, Len(Https) + 1, Len(s)))
    ELSE IF StartsWith(s, Http7) THEN UpToDelim(SubSeq(s, Len(Http7) + 1, Len(s)))
    ELSE <<>>

\* our_properties.py _normalize_url
normalize_url(raw) ==
    LET s0 == Lower(Strip(raw))
        s1 == IF ~StartsWith(s0, Http7) /\ ~StartsWith(s0, Https) THEN Https \o s0 ELSE s0
    IN  IF Strip(raw) = <<>> THEN None
        ELSE IF Netloc(s1) = <<>> THEN None
        ELSE Some(s1)

\* our_properties.py _domain_from_url
domain_from_url(url) == IF Netloc(url) # <<>> THEN Netloc(url) ELSE url

\* a stored element: a dict (missing keys read as "") or a legacy string
RawSite(isDict, url, description, title, logoKey) ==
    [isDict |-> isDict, url |-> url, description |-> description, title |-> title,
     logoKey |-> logoKey]

\* our_properties.py _site_to_entry; the url is None when the element is dropped
site_to_entry(r) ==
    IF r.isDict
    THEN LET url == IF Strip(r.url) # <<>> THEN normalize_url(Strip(r.url)) ELSE None
             desc == SubSeq(Strip(r.description), 1,
                            IF Len(Strip(r.description)) < DESC_MAX
                            THEN Len(Strip(r.description)) ELSE DESC_MAX)
         IN  [url |-> url, description |-> desc, title |-> Strip(r.title),
              logoKey |-> IF Strip(r.logoKey) # <<>> THEN Some(Strip(r.logoKey)) ELSE None]
    ELSE [url |-> normalize_url(r.url), description |-> <<>>, title |-> <<>>,
          logoKey |-> None]

RECURSIVE Kept(_)
Kept(raw) ==
    IF raw = <<>> THEN <<>>
    ELSE IF site_to_entry(Head(raw)).url # None
         THEN <<site_to_entry(Head(raw))>> \o Kept(Tail(raw))
         ELSE Kept(Tail(raw))

\* our_properties.py get_our_properties_sites
get_our_properties_sites(tn, item, readOk) ==
    IF ~tn THEN <<>>
    ELSE IF ~readOk THEN <<>>
    ELSE IF ~item.present THEN <<>>
    ELSE IF item.sites.kind # "array" THEN <<>>
    ELSE Kept(item.sites.elems)

Presign(key) == <<"s", "3", "/">> \o key

\* our_properties.py fetch_our_properties with _add_logo_urls: bucket is
\* MEDIA_BUCKET being set, signOk[i] is FALSE when the presigning of entry i
\* raises
fetch_our_properties(tn, item, readOk, bucket, signOk) ==
    LET entries == get_our_properties_sites(tn, item, readOk)
    IN  [i \in 1..Len(entries) |->
           LET e == entries[i]
               domain == domain_from_url(e.url[1])
           IN  [url |-> e.url[1],
                domain |-> domain,
                status |-> "up",
                description |-> e.description,
                title |-> IF e.title # <<>> THEN e.title ELSE domain,
                logoKey |-> e.logoKey,
                logoUrl |-> IF bucket /\ e.logoKey # None /\ signOk[i]
                            THEN Some(Presign(e.logoKey[1])) ELSE None]]

PropToJson(e) ==
    <<e.url, e.domain, e.status, e.description, e.title, e.logoKey, e.logoUrl>>

PropFromJson(t) ==
    [url |-> t[1], domain |-> t[2], status |-> t[3], description |-> t[4],
     title |-> t[5], logoKey |-> t[6], logoUrl |-> t[7]]

JsonDumpsProps(list) ==
    [kind |-> "array", elems |-> [i \in 1..Len(list) |-> PropToJson(list[i])]]

JsonLoadsProps(text) ==
    [i \in 1..Len(text.elems) |-> PropFromJson(text.elems[i])]

\* handler.py getOurProperties, after the try body returned list or raised:
\* lines 639 and 640-642
getOurProperties(kind, list, fetches) ==
    IF kind = "raise"
    THEN [statusCode |-> 500, sites |-> JsonDumpsProps(<<>>), error |-> TRUE,
          fetches |-> fetches]
    ELSE [statusCode |-> 200, sites |-> JsonDumpsProps(list), error |-> FALSE,
          fetches |-> fetches]

\* the largest stored list
MaxStored == 3

\* the OUR_PROPERTIES / SITES item as a request finds it
OpItems ==
    { NoCfg,
      [present |-> TRUE, sites |-> CorruptText],
      [present |-> TRUE, sites |-> NoText],
      [present |-> TRUE,
       sites |-> [kind |-> "array",
                  elems |-> << RawSite(TRUE, <<" ", "A", "/", "x", " ">>, <<"d", " ">>,
                                       <<>>, <<"k">>),
                               RawSite(FALSE, Http7 \o <<"b">>, <<>>, <<>>, <<>>),
                               RawSite(TRUE, <<" ">>, <<"d">>, <<"t">>, <<>>) >>]],
      [present |-> TRUE,
       sites |-> [kind |-> "array",
                  elems |-> << RawSite(FALSE, Https \o <<"/", "x">>, <<>>, <<>>, <<>>),
                               RawSite(TRUE, Https \o <<"B">>, <<>>, <<"t">>, <<>>) >>]] }

\* getOurProperties: the whole handler. callOk is FALSE when
\* fetch_our_properties() raises
GetOurProperties ==
    /\ opPc = "idle"
    /\ pc = Idle
    /\ \E callOk \in BOOLEAN, readOk \in BOOLEAN, bucket \in BOOLEAN,
          signOk \in [1..MaxStored -> BOOLEAN] :
          LET out == IF callOk
                     THEN ListOut(fetch_our_properties(tableName, opStore, readOk,
                                                       bucket, signOk))
                     ELSE RaiseOut
          IN  /\ opOut' = out
              /\ opResp' = getOurProperties(out.kind, out.items, opResp.fetches + 1)
    /\ opPc' = "responded"
    /\ UNCHANGED <<mainVars, clsVars, probeVars, normVars, matchVars, opStore>>

\* the response has gone to the client
OpReturn ==
    /\ opPc = "responded"
    /\ opPc' = "idle"
    /\ opOut' = NoneOut
    /\ opResp' = NoResp
    /\ UNCHANGED <<mainVars, clsVars, probeVars, normVars, matchVars, opStore>>

InitHandler ==
    /\ tableName \in BOOLEAN
    /\ urKey = FALSE
    /\ scKey = FALSE
    /\ cfg = NoCfg
    /\ Fresh
    /\ clsIn = NoInput
    /\ clsOut = "none"
    /\ ProbeIdle
    /\ opStore \in (IF tableName THEN OpItems ELSE {NoCfg})
    /\ opPc = "idle"
    /\ opOut = NoneOut
    /\ opResp = NoResp
    /\ NormIdle
    /\ MatchIdle

\* one request at a time
NextHandler ==
    \/ (opPc = "idle" /\ Request("c1"))
    \/ GetOurProperties
    \/ OpReturn

SpecHandler == InitHandler /\ [][NextHandler]_vars

\* C19: GET /internet-dashboard and GET /recommended/highlights answer 200
\* with the list the fetch returned, having called the fetch exactly once;
\* when the fetch raised they answer 500 with an empty sites list and an error
\* field, and the request ends with a response, not with an exception.
C19_HandlerWrapsFetch ==
    /\ \A c \in Calls :
          pc[c] = "responded" =>
            /\ response[c].fetches = 1
            /\ outcome[c] \in {"returned", "raised"}
            /\ outcome[c] = "returned" =>
                  /\ response[c].statusCode = 200
                  /\ JsonLoadsResult(response[c].sites) = ret[c]
                  /\ ~response[c].error
            /\ outcome[c] = "raised" =>
                  /\ response[c].statusCode = 500
                  /\ response[c].sites.kind = "array"
                  /\ JsonLoadsResult(response[c].sites) = <<>>
                  /\ response[c].error
    /\ opPc = "responded" =>
            /\ opResp.fetches = 1
            /\ opOut.kind \in {"list", "raise"}
            /\ opOut.kind = "list" =>
                  /\ opResp.statusCode = 200
                  /\ JsonLoadsProps(opResp.sites) = opOut.items
                  /\ ~opResp.error
            /\ opOut.kind = "raise" =>
                  /\ opResp.statusCode = 500
                  /\ opResp.sites.kind = "array"
                  /\ JsonLoadsProps(opResp.sites) = <<>>
                  /\ opResp.error

\* fetchDashboard raised on its last line and the handler answered 500
C19_Witness ==
    /\ pc["c1"] = "responded"
    /\ outcome["c1"] = "raised"
    /\ response["c1"].statusCode = 500
    /\ response["c1"].error
    /\ response["c1"].fetches = 1

-----------------------------------------------------------------------------
(* The target list a pass resolves *)

\* the SITES item holds a JSON array with at least one element
StoredList(tn, item) ==
    tn /\ item.present /\ item.sites.kind = "array" /\ Len(item.sites.elems) >= 1

\* C20: get_dashboard_sites returns the stored list when one is stored, and
\* the built-in default list when there is no table, no item, a stored value
\* that is not a non-empty list, or a failed read.
C20_StoredListOrDefault ==
    \A c \in Calls :
        pc[c] = "http" =>
            IF StoredList(tableName, cfg)
            THEN sites[c] \in {JsonLoadsSites(cfg.sites), DEFAULT_SITES}
            ELSE sites[c] = DEFAULT_SITES

-----------------------------------------------------------------------------
(* Shape of the returned entries *)

Statuses == {"up", "degraded", "down"}

\* C21: every entry of every list fetchDashboard returns has a status that is
\* one of up, degraded, down and a latency that is absent or a non-negative
\* integer.
C21_WellFormedEntries ==
    \A c \in Calls :
        Returned(c) =>
            \A i \in 1..Len(ret[c]) :
                /\ ret[c][i].status \in Statuses
                /\ \/ ret[c][i].responseTimeMs = None
                   \/ ret[c][i].responseTimeMs[1] >= 0

-----------------------------------------------------------------------------
(* _normalize_url on its own: one raw value, normalized once *)

\* the longest raw value after its optional scheme
MaxUrlLen == 3

UrlChars == {"a", "B", "/", " "}

RawUrls ==
    { p \o t : p \in {<<>>, Https, Http7},
               t \in UNION { [1..n -> UrlChars] : n \in 0..MaxUrlLen } }

InitNormalize ==
    /\ tableName = FALSE
    /\ urKey = FALSE
    /\ scKey = FALSE
    /\ cfg = NoCfg
    /\ Fresh
    /\ clsIn = NoInput
    /\ clsOut = "none"
    /\ ProbeIdle
    /\ OpIdle
    /\ nIn \in RawUrls
    /\ nOut = None
    /\ nDone = FALSE
    /\ MatchIdle

Normalize ==
    /\ ~nDone
    /\ nOut' = normalize_url(nIn)
    /\ nDone' = TRUE
    /\ UNCHANGED <<mainVars, clsVars, probeVars, opVars, matchVars, nIn>>

NextNormalize == Normalize

SpecNormalize == InitNormalize /\ [][NextNormalize]_vars

HasScheme(s) == StartsWith(s, Http7) \/ StartsWith(s, Https)

\* C22: _normalize_url yields a canonical URL: a value without scheme gets
\* https://, a trailing slash is stripped, values that differ only by the
\* missing scheme or by a trailing slash normalize to the same URL, and a
\* normalized URL normalizes to itself.
C22_CanonicalUrl ==
    (nDone /\ nOut # None) =>
        /\ HasScheme(nOut[1])
        /\ ~HasScheme(Lower(Strip(nIn))) => nOut = Some(Https \o Lower(Strip(nIn)))
        /\ ~HasScheme(Lower(Strip(nIn))) => normalize_url(Https \o Strip(nIn)) = nOut
        /\ Last(nOut[1]) # "/"
        /\ normalize_url(nIn \o <<"/">>) = nOut
        /\ normalize_url(nOut[1]) = nOut

-----------------------------------------------------------------------------
(* Remote calls made inside a pass *)

\* the provider sends requests when the cascade reaches it
Attempted(name) == name = "siteinformant" \/ Credential(name)

\* C23: in one pass every secondary provider that is attempted sends exactly
\* one request for the whole target list, however many targets there are.
C23_OneBatchedCall ==
    \A c \in Calls : \A i \in 1..Len(invoked[c]) :
        (/\ invoked[c][i].name \in Secondaries
         /\ Attempted(invoked[c][i].name)
         /\ Len(sites[c]) >= 1)
        => remote[c][i].calls = 1

\* the number of direct checks of the pass so far: every invocation of
\* _fetch_level1_http submits one check per target
RECURSIVE DirectChecks(_)
DirectChecks(rs) ==
    IF rs = <<>> THEN 0
    ELSE (IF Head(rs).name \in {"http", "fallback"} THEN Head(rs).calls ELSE 0)
         + DirectChecks(Tail(rs))

\* C24: within one call of fetchDashboard no target is probed by the direct
\* probe more than once: a target that missed the deadline is failed for the
\* pass, not retried.
C24_NoSecondDirectProbe ==
    \A c \in Calls : DirectChecks(remote[c]) <= Len(sites[c])

-----------------------------------------------------------------------------
(* UptimeRobot and StatusCake on their own: one response with its monitors,
   matched against the targets *)

\* the largest number of monitors / tests in a response
MaxMonitors == 2

MatchTargets == { <<DomA>>, <<DomA, DomB>>, <<DomB, DomA>> }

MonitorUrls == { Http7 \o DomA \o <<"/">>, DomB \o <<"/", "x">>, Https \o <<"B">> }

\* the "status" of a monitor or the "uptime" of a test, None when missing
MonitorValues == { None, Some(2), Some(9), Some(94), Some(95), Some(99) }

MonitorLists ==
    UNION { [1..n -> [url : MonitorUrls, value : MonitorValues]] : n \in 0..MaxMonitors }

\* str.replace(p, "")
RECURSIVE RemoveAll(_, _)
RemoveAll(s, p) ==
    IF s = <<>> THEN <<>>
    ELSE IF StartsWith(s, p) THEN RemoveAll(SubSeq(s, Len(p) + 1, Len(s)), p)
    ELSE <<Head(s)>> \o RemoveAll(Tail(s), p)

\* str.rstrip("/")
RECURSIVE RStripSlash(_)
RStripSlash(s) ==
    IF s # <<>> /\ s[Len(s)] = "/" THEN RStripSlash(SubSeq(s, 1, Len(s) - 1)) ELSE s

\* url.split("/")[0]
RECURSIVE BeforeSlash(_)
BeforeSlash(s) ==
    IF s = <<>> \/ Head(s) = "/" THEN <<>>
    ELSE <<Head(s)>> \o BeforeSlash(Tail(s))

\* lines 150-152 and 188-190: the key of a monitor in by_url
monitor_key(url) == BeforeSlash(RStripSlash(RemoveAll(RemoveAll(url, Https), Http7)))

\* the index of the monitor by_url holds for the domain, 0 when none: a later
\* monitor with the same key replaces an earlier one
ByUrlIndex(monitors, domain) ==
    LET hits == {k \in 1..Len(monitors) : monitor_key(monitors[k].url) = domain}
    IN  IF hits = {} THEN 0 ELSE CHOOSE k \in hits : \A j \in hits : j <= k

\* lines 147-156: by_url.get(domain) for the targets
ur_by_url(monitors, s) ==
    [d \in Range(s) |->
        IF ByUrlIndex(monitors, d) = 0 THEN None
        ELSE Some([status |-> monitors[ByUrlIndex(monitors, d)].value])]

\* lines 186-194: by_url.get(domain) for the targets
sc_by_url(tests, s) ==
    [d \in Range(s) |->
        IF ByUrlIndex(tests, d) = 0 THEN None
        ELSE Some([uptime |-> tests[ByUrlIndex(tests, d)].value])]

InitMatch ==
    /\ tableName = FALSE
    /\ urKey = TRUE
    /\ scKey = TRUE
    /\ cfg = NoCfg
    /\ Fresh
    /\ clsIn = NoInput
    /\ clsOut = "none"
    /\ ProbeIdle
    /\ OpIdle
    /\ NormIdle
    /\ mKind \in Keyed
    /\ mTargets \in MatchTargets
    /\ mMonitors \in MonitorLists
    /\ mProbe \in HttpOutcomes
    /\ mOut = NoneOut
    /\ mDone = FALSE

\* one call of _fetch_level2_uptimerobot(sites) or _fetch_level3_statuscake(sites);
\* callOk is FALSE when the request or the decoding raises
Match ==
    /\ ~mDone
    /\ \E callOk \in BOOLEAN :
         mOut' = IF mKind = "uptimerobot"
                 THEN fetch_level2_uptimerobot(mTargets, urKey, callOk,
                                               ur_by_url(mMonitors, mTargets))
                 ELSE fetch_level3_statuscake(mTargets, scKey, callOk,
                                              sc_by_url(mMonitors, mTargets))
    /\ mDone' = TRUE
    /\ UNCHANGED <<mainVars, clsVars, probeVars, opVars, normVars,
                   mKind, mTargets, mMonitors, mProbe>>

NextMatch == Match

SpecMatch == InitMatch /\ [][NextMatch]_vars

\* the host of a monitor URL: scheme and path left out
Hostname(url) ==
    UpToDelim(IF StartsWith(url, Https) THEN SubSeq(url, Len(Https) + 1, Len(url))
              ELSE IF StartsWith(url, Http7) THEN SubSeq(url, Len(Http7) + 1, Len(url))
              ELSE url)

Matched(domain) == \E k \in 1..Len(mMonitors) : Hostname(mMonitors[k].url) = domain

\* C25: a list returned by UptimeRobot or StatusCake has exactly one entry per
\* target, in target order, every target without a matching monitor is down,
\* and the list is not empty when there are targets.
C25_OneEntryPerTargetUnmatchedDown ==
    (mDone /\ mOut.kind = "list") =>
        /\ OnePerTarget(mOut.items, mTargets)
        /\ Len(mOut.items) >= 1
        /\ \A i \in 1..Len(mTargets) :
              ~Matched(mTargets[i]) => mOut.items[i].status = "down"

\* UptimeRobot answered with a monitor for the first target and one for
\* another host: the first target is up, the second is down
C25_Witness ==
    /\ mDone /\ mKind = "uptimerobot" /\ mOut.kind = "list"
    /\ mTargets = <<DomA, DomB>>
    /\ Len(mMonitors) = 2
    /\ Matched(DomA) /\ ~Matched(DomB)
    /\ mOut.items[1].status = "up" /\ mOut.items[2].status = "down"

\* the uptime the matching test reports for the domain, None when missing
ReportedUptime(domain) == mMonitors[ByUrlIndex(mMonitors, domain)].value

\* the bands of the uptime-percentage provider
UptimeBand(u) ==
    IF u = None THEN "down"
    ELSE IF u[1] >= 99 THEN "up"
    ELSE IF u[1] >= 95 THEN "degraded"
    ELSE "down"

\* C26: in a list returned by StatusCake the status of every matched target is
\* given by the reported uptime alone (>= 99 up, 95 to below 99 degraded,
\* below 95 or missing down), whatever the direct probe would report for the
\* target.
C26_UptimeBandsAlone ==
    (mDone /\ mKind = "statuscake" /\ mOut.kind = "list") =>
        \A i \in 1..Len(mTargets) :
            ByUrlIndex(mMonitors, mTargets[i]) # 0 =>
                /\ mOut.items[i].status = UptimeBand(ReportedUptime(mTargets[i]))
                /\ mOut.items[i].source = "statuscake"

\* StatusCake reports 95 for a target the direct probe would find up and fast:
\* the target is degraded
C26_Witness ==
    /\ mDone /\ mKind = "statuscake" /\ mOut.kind = "list"
    /\ ByUrlIndex(mMonitors, mTargets[1]) # 0
    /\ ReportedUptime(mTargets[1]) = Some(95)
    /\ check_one(mTargets[1], mProbe).status = "up"
    /\ mOut.items[1].status = "degraded"

-----------------------------------------------------------------------------
(* The cache across passes *)

\* C27: a pass that resolves from the cached snapshot leaves the STATUS item
\* as it found it, the stored list and its updatedAt: only a pass in which a
\* live provider succeeded writes the cache.
C27_CachePassLeavesCache ==
    \A c \in Calls :
        (Returned(c) /\ src[c] = "cache") => cache = seen[c].item

\* every entry of the list is a Site Informant entry with status down
AllDownSiteInformant(list) ==
    /\ Len(list) >= 1
    /\ \A i \in 1..Len(list) :
          list[i].source = "siteinformant" /\ list[i].status = "down"

\* C28: Site Informant returns a list exactly when it classified at least one
\* target up or degraded; when every target is down it returns absent, so an
\* all-down Site Informant reading is neither returned by fetchDashboard nor
\* written to the cache.
C28_SiteInformantAllDownAbsent ==
    /\ \A c \in Calls : \A i \in 1..Len(invoked[c]) :
          invoked[c][i].name = "siteinformant" =>
              /\ invoked[c][i].kind \in {"list", "none"}
              /\ invoked[c][i].kind = "list" <=> remote[c][i].usable >= 1
              /\ invoked[c][i].kind = "list" => ~AllDownSiteInformant(invoked[c][i].items)
    /\ \A c \in Calls : Returned(c) => ~AllDownSiteInformant(ret[c])
    /\ cache.present => ~AllDownSiteInformant(Stored)

\* Site Informant answered for the targets, every one came out down, it
\* returned absent and the pass went on to the cache
C28_Witness ==
    /\ Len(invoked["c1"]) >= 5
    /\ invoked["c1"][4].name = "siteinformant" /\ invoked["c1"][4].kind = "none"
    /\ remote["c1"][4].ok /\ remote["c1"][4].usable = 0
    /\ remote["c1"][4].calls >= 2
    /\ invoked["c1"][5].name = "cache"

\* C29: over any sequence of fetchDashboard calls the STATUS item is absent
\* or holds a non-empty list; it is never deleted nor overwritten with an
\* empty list, so once it exists a cache load whose read succeeds returns a
\* list in every later pass.
C29_SnapshotAbsentOrNonEmpty ==
    /\ [](cache.present =>
            /\ cache.data.kind = "array"
            /\ Len(cache.data.elems) >= 1
            /\ fetch_level5_dynamodb(tableName, cache, TRUE).kind = "list")
    /\ [][cache.present => cache'.present]_vars
    /\ [](\A c \in Calls : \A i \in 1..Len(invoked[c]) :
            (invoked[c][i].name = "cache" /\ remote[c][i].ok /\ seen[c].item.present)
                => invoked[c][i].kind = "list")

\* a later pass, after the snapshot was written and the clock moved on, falls
\* back to the snapshot it found
C29_Witness ==
    /\ Returned("c1") /\ src["c1"] = "cache"
    /\ seen["c1"].item.present
    /\ now > seen["c1"].item.updatedAt
    /\ Len(ret["c1"]) >= 1

-----------------------------------------------------------------------------
(* The target list under PUT /admin/internet-dashboard/sites *)

\* a table whose SITES item has not been written yet: every later value of
\* the item is one a PUT stored
InitPut ==
    /\ tableName \in BOOLEAN
    /\ urKey = FALSE
    /\ scKey = FALSE
    /\ cfg = NoCfg
    /\ Fresh
    /\ clsIn = NoInput
    /\ clsOut = "none"
    /\ ProbeIdle
    /\ OpIdle
    /\ NormIdle
    /\ MatchIdle

SpecPut == InitPut /\ [][Next]_vars

\* a non-empty list of strings, each trimmed and not blank
Cleaned(list) ==
    /\ Len(list) >= 1
    /\ \A i \in 1..Len(list) : list[i] # <<>> /\ Strip(list[i]) = list[i]

\* the request's sites value is not an array, or has no non-blank entry
NoUsableSites(body) ==
    body.json = "object" /\ (~body.isList \/ StripNonBlank(body.items) = <<>>)

\* C30: after any sequence of PUT /admin/internet-dashboard/sites requests
\* get_dashboard_sites never returns an empty list: a request whose sites
\* value is not an array or has no non-blank entry is answered 400 and leaves
\* the SITES item as it was, and an accepted request stores a non-empty list
\* of trimmed non-blank strings.
C30_PutKeepsTargetsNonEmpty ==
    /\ [](\A readOk \in BOOLEAN : get_dashboard_sites(tableName, cfg, readOk) # <<>>)
    /\ [](\A c \in Calls : pc[c] # "idle" => Len(sites[c]) >= 1)
    /\ [](cfg.present => cfg.sites.kind = "array" /\ Cleaned(JsonLoadsSites(cfg.sites)))
    /\ [][NoUsableSites(putResp'.request) =>
            putResp'.statusCode = 400 /\ cfg' = cfg]_vars
    /\ [][putResp'.statusCode # 200 => cfg' = cfg]_vars
    /\ [][(putResp' # putResp /\ putResp'.statusCode = 200) =>
            /\ cfg'.present
            /\ JsonLoadsSites(cfg'.sites) = StripNonBlank(putResp'.request.items)
            /\ Cleaned(JsonLoadsSites(cfg'.sites))]_vars

\* a list was stored by an accepted PUT, then a PUT whose array has no
\* non-blank entry was answered 400: the stored list is still what
\* get_dashboard_sites returns
C30_Witness ==
    /\ pc = Idle
    /\ putResp.statusCode = 400
    /\ putResp.request.isList /\ putResp.request.items = <<Blank>>
    /\ cfg.present /\ JsonLoadsSites(cfg.sites) = <<<<"b">>, DomA>>
    /\ get_dashboard_sites(tableName, cfg, TRUE) = <<<<"b">>, DomA>>

====
